---- MODULE Spec2Model ----
(***************************************************************************)
(* Client-side event-collection pipeline of websim:                        *)
(*   frontend/src/hooks/useExperimentLogger.ts  (hook, queue, flush,        *)
(*                                               unload guard)              *)
(*   frontend/src/lib/loggerApi.ts              (sendEvents)                *)
(* One browser tab; at most one live hook instance at a time.  JavaScript   *)
(* is single-threaded, so every handler below is one atomic action; the     *)
(* only suspension point is the await in flush.                             *)
(* Beside it: the collection endpoint, backend/server.js (POST /api/events), *)
(* and the midline dwell observer of the search result page.                *)
(***************************************************************************)
EXTENDS Integers, Sequences, FiniteSets, TLC

\* ---- bounds of the model ------------------------------------------------
MaxSeq == 4
MaxPageViews == 2
MaxTime == 2
MaxRequests == 2
MaxEvents == 2

VARIABLES
    \* per-tab state
    storage,            \* sessionStorage['weibsim_session_id'], <<>> when absent
    idGen,              \* source of Date.now()/Math.random() id suffixes
    \* refs of the current hook instance
    status,             \* "unmounted" | "active": listeners and timers installed
    sessionIdRef,
    pageSessionIdRef,
    seqRef,
    queueRef,
    flushingRef,
    enterAtRef,
    maxDepthRef,        \* a percentage, kept exactly as <<numerator, denominator>>
    listeners,          \* registrations made by addEventListener, with their page-view
    timers,             \* intervals started by setInterval, with their page-view
    inflight,           \* batches handed to fetch whose promise has not settled
    \* the browser around the hook
    now,                \* Date.now()
    doc,                \* scroll geometry of document.documentElement, body, window
    metrics,            \* what the last direct call of getScrollMetrics returned
    \* observation of the run (history, not read by the program)
    pvCount,            \* effect installs (logical page-views) so far in the tab
    enterLog,           \* the page_enter record of every page-view of the tab
    sids,               \* sessionId values carried by records created in the tab
    created,            \* records created by this instance, in creation order
    delivered,          \* seq of records of this instance the endpoint accepted
    beacons,            \* payloads this instance handed to navigator.sendBeacon
    settled,            \* the batch whose delivery settled in the last step
    raw,                \* the raw browser event dispatched in the last step
    installedAt,        \* the time at which the current effect was installed
    last,               \* the handler that ran last
    \* the collection endpoint (backend/server.js)
    requests,           \* POST /api/events requests received, with their progress
    eventLog,           \* content of logs/events.jsonl, text pieces in file order
    \* the midline dwell observer of the search result page
    clock,              \* Date.now() of that page, in ms
    observing,          \* the IntersectionObserver of the current effect is connected
    notified,           \* per post, the isIntersecting of the last entry delivered
    pending,            \* Map postId -> wait timer, as the time the timer is due
    staying,            \* Map postId -> startedAt, in insertion order
    viewedRef,          \* posts already logged as viewed
    interactions        \* logInteraction / saveAction calls made, in order

vars == <<storage, idGen, status, sessionIdRef, pageSessionIdRef, seqRef, queueRef,
          flushingRef, enterAtRef, maxDepthRef, listeners, timers, inflight, now,
          doc, metrics, pvCount, enterLog, sids, created, delivered, beacons,
          settled, raw, installedAt, last, requests, eventLog, clock, observing,
          notified, pending, staying, viewedRef, interactions>>

loggerVars == <<storage, idGen, status, sessionIdRef, pageSessionIdRef, seqRef,
                queueRef, flushingRef, enterAtRef, maxDepthRef, listeners, timers,
                inflight, now, doc, metrics, pvCount, enterLog, sids, created,
                delivered, beacons, settled, raw, installedAt, last>>
serverVars == <<requests, eventLog>>
dwellVars == <<clock, observing, notified, pending, staying, viewedRef, interactions>>

tabVars == <<storage, idGen>>
idVars == <<sessionIdRef, pageSessionIdRef>>
viewVars == <<pvCount, enterLog>>
hookVars == <<listeners, timers>>
envVars == <<now, doc, metrics>>
pageRefs == <<enterAtRef, maxDepthRef, installedAt>>

\* ---- values ---------------------------------------------------------------
\* The ten listeners registered by the effect, by the event name they push.
ListenerEvents ==
    {"scroll", "click", "touch_start", "touch_move", "touch_end",
     "visibility_change", "focus", "blur", "input", "route_update"}

\* The three touch handlers return without a push when the event carries no
\* changed touch.
TouchEvents == {"touch_start", "touch_move", "touch_end"}

\* The raw events the pipeline model dispatches, each with whether it carries a
\* changed touch: one that is pushed and a touch event that is not; the other
\* listeners push through the same path and differ only in the event name.
FiredEvents == {<<"scroll", TRUE>>, <<"touch_start", FALSE>>}

\* addEventListener(target, type, capture) of each handler.
Registration(ev) ==
    CASE ev = "scroll" -> <<"window", "scroll", FALSE>>
      [] ev = "click" -> <<"document", "click", TRUE>>
      [] ev = "touch_start" -> <<"document", "touchstart", FALSE>>
      [] ev = "touch_move" -> <<"document", "touchmove", FALSE>>
      [] ev = "touch_end" -> <<"document", "touchend", FALSE>>
      [] ev = "input" -> <<"document", "input", TRUE>>
      [] ev = "visibility_change" -> <<"document", "visibilitychange", FALSE>>
      [] ev = "focus" -> <<"window", "focus", FALSE>>
      [] ev = "blur" -> <<"window", "blur", FALSE>>
      [] ev = "route_update" -> <<"window", "popstate", FALSE>>

\* handleUnload is registered for both teardown signals.
UnloadRegistrations ==
    {<<"window", "beforeunload", FALSE>>, <<"window", "pagehide", FALSE>>}

\* Everything the effect registers, tagged with the page-view whose closure it is.
addListeners(view) ==
    {<<Registration(ev), view>> : ev \in ListenerEvents}
        \cup {<<r, view>> : r \in UnloadRegistrations}

\* The removeEventListener calls of the cleanup: same target, type and capture
\* flag as the registration.
Removals ==
    {<<"window", "scroll", FALSE>>, <<"document", "click", TRUE>>,
     <<"document", "touchstart", FALSE>>, <<"document", "touchmove", FALSE>>,
     <<"document", "touchend", FALSE>>, <<"document", "input", TRUE>>,
     <<"document", "visibilitychange", FALSE>>, <<"window", "focus", FALSE>>,
     <<"window", "blur", FALSE>>, <<"window", "popstate", FALSE>>,
     <<"window", "beforeunload", FALSE>>, <<"window", "pagehide", FALSE>>}

\* Variant: the scroll listener is removed from document instead of window.
removeListeners_WrongTarget(ls, view) ==
    {l \in ls : ~(l[2] = view /\ l[1] \in Removals \ {<<"window", "scroll", FALSE>>})}

removeListeners(ls, view) ==
    {l \in ls : ~(l[2] = view /\ l[1] \in Removals)}

\* setInterval(..., 100) and setInterval(..., 400)
startTimers(view) == {<<"sampleTimer", view>>, <<"flushTimer", view>>}

\* Variant: only the flush timer is cleared.
clearTimers_FlushOnly(ts, view) == ts \ {<<"flushTimer", view>>}

\* window.clearInterval(sampleTimer); window.clearInterval(flushTimer)
clearTimers(ts, view) == ts \ {<<"sampleTimer", view>>, <<"flushTimer", view>>}

\* Variant: the touch handler has no early return.
touchGuard_Missing(ev, touch) == FALSE

\* const t = e.changedTouches?.[0]; if (!t) return;
touchGuard(ev, touch) == ev \in TouchEvents /\ ~touch

\* Variant: the queue is left as it was after the beacon.
clearQueue_Keep(q) == q

\* queueRef.current = []
clearQueue(q) == <<>>

\* What the endpoint does with one POST: 2xx, a non-2xx answer, or no answer.
Outcomes == {"ok", "http_error", "network_error"}

\* '' and null are both falsy in the code's tests.
Empty == <<>>

\* `s_${Date.now()}_${random}` / `pg_${Date.now()}_${random}`: the clock and
\* random suffix are taken to make every generated id distinct.
NewId(prefix, n) == <<prefix, n>>

SeqsOf(batch) == {batch[i].seq : i \in DOMAIN batch}

\* ---- midline dwell observer: constants ----------------------------------------
\* window.setTimeout(..., 1000)
WaitMs == 1000
\* Observed posts ([data-observe-id] nodes), and "no entry" in the pending map.
Posts == {"p1", "p2"}
NoTimer == -1

\* ---- Metrics Extractor ------------------------------------------------------
\* JavaScript numbers are modelled exactly: an integer, or a quotient kept as
\* <<numerator, denominator>> with a positive denominator.
Rat(n, d) == <<n, d>>
RatLeq(a, b) == a[1] * b[2] <= b[1] * a[2]

\* Math.max / Math.min
MathMax(a, b) == IF RatLeq(a, b) THEN b ELSE a
MathMin(a, b) == IF RatLeq(a, b) THEN a ELSE b
Max2(a, b) == IF a >= b THEN a ELSE b

\* a || b on numbers
OrElse(a, b) == IF a # 0 THEN a ELSE b

\* x.toFixed(2) of a non-negative number, in hundredths (half rounds up).
ToFixed2(r) == (200 * r[1] + r[2]) \div (2 * r[2])

\* Variant: the upper clamp is missing.
clampPct_NoCeiling(r) == MathMax(Rat(0, 1), r)

\* Math.min(100, Math.max(0, x))
clampPct(r) == MathMin(Rat(100, 1), MathMax(Rat(0, 1), r))

getScrollMetrics(d) ==
    LET scrollTop == OrElse(d.rootScrollTop, OrElse(d.bodyScrollTop, 0))
        scrollHeight == Max2(Max2(d.rootScrollHeight, d.bodyScrollHeight), 1)
        clientHeight == Max2(Max2(d.rootClientHeight, d.innerHeight), 1)
        maxScrollable == Max2(scrollHeight - clientHeight, 1)
    IN [scrollTop |-> scrollTop, scrollHeight |-> scrollHeight,
        clientHeight |-> clientHeight, maxScrollable |-> maxScrollable,
        depthPct |-> clampPct(Rat(scrollTop * 100, maxScrollable))]

\* Variant: the running maximum is overwritten by the current depth.
runningMax_Overwrite(maxDepth, depthPct) == depthPct

\* maxDepthRef.current = Math.max(maxDepthRef.current, metrics.depthPct)
runningMax(maxDepth, depthPct) == MathMax(maxDepth, depthPct)

\* Variant: the operands of the subtraction are swapped.
dwell_Swapped(t, enterAt) == enterAt - t

\* dwellMs: now - enterAtRef.current
dwell(t, enterAt) == t - enterAt

Document(rootTop, bodyTop, rootSH, bodySH, rootCH, innerH) ==
    [rootScrollTop |-> rootTop, bodyScrollTop |-> bodyTop,
     rootScrollHeight |-> rootSH, bodyScrollHeight |-> bodySH,
     rootClientHeight |-> rootCH, innerHeight |-> innerH]

\* Geometries for the metrics alone: negative (overscroll), zero and large
\* offsets, zero and equal heights.
TopValues == {-10, 0, 30, 500}
HeightValues == {0, 1, 100, 160}
DocSpace ==
    {Document(a, b, c, d, e, f) :
        a \in TopValues, b \in TopValues, c \in HeightValues, d \in HeightValues,
        e \in HeightValues, f \in HeightValues}

\* Geometries of a page being scrolled: 60 px scrollable, at the top or 40 px
\* down.
PageDocs == {Document(a, 0, 160, 160, 100, 100) : a \in {0, 40}}

\* ---- the hook's operations -----------------------------------------------
\* Variant: the counter is read but the increment is lost.
NextSeq_NoIncrement(s) == s

\* ++seqRef.current
NextSeq(s) == s + 1

\* The record push builds: seq, the correlation keys, and the caller's partial
\* (event and the fields that go with it) spread over them; view is the ordinal
\* of the page-view (effect install) whose closure created it.
EventPayload(s, view, psid, sid, partial) ==
    partial @@ [seq |-> s, view |-> view, pageSessionId |-> psid, sessionId |-> sid]

\* Variant: the new record is put in front of the queue.
push_AtFront(q, s, view, psid, sid, partial) ==
    [queue |-> <<EventPayload(NextSeq(s), view, psid, sid, partial)>> \o q,
     seq |-> NextSeq(s)]

\* queueRef.current.push({seq: ++seqRef.current, ...})
push(q, s, view, psid, sid, partial) ==
    [queue |-> Append(q, EventPayload(NextSeq(s), view, psid, sid, partial)),
     seq |-> NextSeq(s)]

\* The partial each caller of push passes (the fields the properties read).
enterPartial(m) == [event |-> "page_enter", depth |-> ToFixed2(m.depthPct)]
sampledPartial(ev, m, maxDepth) ==
    [event |-> ev, depth |-> ToFixed2(m.depthPct), maxDepthPct |-> ToFixed2(maxDepth)]
plainPartial(ev) == [event |-> ev]
exitPartial(t, enterAt, maxDepth) ==
    [event |-> "page_exit", dwellMs |-> dwell(t, enterAt), depth |-> ToFixed2(maxDepth)]

\* Variant: the failed batch is appended behind the newer records.
unshift_AtTail(q, batch) == q \o batch

\* queueRef.current.unshift(...batch)
unshift(q, batch) == batch \o q

\* Variant: the in-flight check is missing.
flushGuard_Missing(f) == FALSE

\* if (flushingRef.current) return;
flushGuard(f) == f

\* Variant: an empty batch is sent like any other.
flush_NoEmptyCheck(q, f, infl) ==
    IF flushGuard(f)
    THEN [queue |-> q, flushing |-> f, inflight |-> infl, did |-> "flush_skip"]
    ELSE [queue |-> <<>>, flushing |-> TRUE, inflight |-> Append(infl, q),
          did |-> IF q = <<>> THEN "flush_empty" ELSE "flush_start"]

\* flush(), up to its await: skip while in flight, drain, no-op when empty,
\* else set the flag and hand the batch to sendEvents.
flush(q, f, infl) ==
    IF flushGuard(f)
    THEN [queue |-> q, flushing |-> f, inflight |-> infl, did |-> "flush_skip"]
    ELSE IF q = <<>>
         THEN [queue |-> <<>>, flushing |-> f, inflight |-> infl, did |-> "flush_empty"]
         ELSE [queue |-> <<>>, flushing |-> TRUE, inflight |-> Append(infl, q),
               did |-> "flush_start"]

\* Variant: the flag is cleared only when the delivery resolved.
finallyFlag_KeepOnReject(result) == result = "rejected"

\* finally { flushingRef.current = false }
finallyFlag(result) == FALSE

\* Variant: every delivery rejects.
sendEvents_AlwaysRejects(outcome) == "rejected"

\* sendEvents: awaits fetch and ignores the Response; fetch rejects only when
\* no response arrives.
sendEvents(outcome) == IF outcome = "network_error" THEN "rejected" ELSE "resolved"

\* Variant: a new session id is generated and stored on every render.
ReadOrCreate_AlwaysCreate(ref, stored, n) ==
    [ref |-> NewId("s", n + 1), stored |-> NewId("s", n + 1), gen |-> n + 1]

\* sessionId read-or-create in the hook body.
ReadOrCreate(ref, stored, n) ==
    IF ref # Empty
    THEN [ref |-> ref, stored |-> stored, gen |-> n]
    ELSE IF stored # Empty
         THEN [ref |-> stored, stored |-> stored, gen |-> n]
         ELSE [ref |-> NewId("s", n + 1), stored |-> NewId("s", n + 1), gen |-> n + 1]

\* Variant: the beacon carries the queue without the synthetic page_exit.
unloadPayloads_QueueOnly(exitRec, q) == q

\* payloads = [page_exit, ...queueRef.current]
unloadPayloads(exitRec, q) == <<exitRec>> \o q

\* ---- initial state: a tab before the first mount ----------------------------
InitOn(StartDocs) ==
    /\ storage \in {Empty, NewId("s", 0)}
    /\ idGen = 0
    /\ status = "unmounted"
    /\ sessionIdRef = Empty
    /\ pageSessionIdRef = Empty
    /\ seqRef = 0
    /\ queueRef = <<>>
    /\ flushingRef = FALSE
    /\ enterAtRef = 0
    /\ maxDepthRef = Rat(0, 1)
    /\ listeners = {}
    /\ timers = {}
    /\ inflight = <<>>
    /\ now = 0
    /\ doc \in StartDocs
    /\ metrics = <<>>
    /\ installedAt = 0
    /\ pvCount = 0
    /\ enterLog = <<>>
    /\ sids = {}
    /\ created = <<>>
    /\ delivered = {}
    /\ beacons = <<>>
    /\ settled = <<>>
    /\ raw = <<>>
    /\ last = "init"
    /\ requests = <<>>
    /\ eventLog = <<>>
    /\ clock = 0
    /\ observing = FALSE
    /\ notified = [p \in Posts |-> "none"]
    /\ pending = [p \in Posts |-> NoTimer]
    /\ staying = <<>>
    /\ viewedRef = {}
    /\ interactions = <<>>

\* The pipeline alone: the page is not scrolled and the clock is not read.
Init == InitOn({Document(0, 0, 160, 160, 100, 100)})

\* ---- actions ------------------------------------------------------------------
\* First render of a new component instance (fresh refs, sessionId
\* read-or-create) followed by the effect: push page_enter, attach listeners,
\* start both timers.
Mount ==
    /\ UNCHANGED <<serverVars, dwellVars>>
    /\ status = "unmounted"
    /\ pvCount < MaxPageViews
    /\ LET sess == ReadOrCreate(Empty, storage, idGen)
           psid == NewId("pg", sess.gen + 1)
           initialMetrics == getScrollMetrics(doc)
           p == push(<<>>, 0, pvCount + 1, psid, sess.ref, enterPartial(initialMetrics))
       IN /\ maxDepthRef' = initialMetrics.depthPct
          /\ storage' = sess.stored
          /\ idGen' = sess.gen + 1
          /\ sessionIdRef' = sess.ref
          /\ pageSessionIdRef' = psid
          /\ seqRef' = p.seq
          /\ queueRef' = p.queue
          /\ created' = p.queue
          /\ enterLog' = Append(enterLog, p.queue[1])
          /\ sids' = sids \cup {sess.ref}
    /\ status' = "active"
    /\ flushingRef' = FALSE
    /\ enterAtRef' = now
    /\ installedAt' = now
    /\ UNCHANGED envVars
    /\ listeners' = addListeners(pvCount + 1)
    /\ timers' = startTimers(pvCount + 1)
    /\ inflight' = <<>>
    /\ pvCount' = pvCount + 1
    /\ delivered' = {}
    /\ beacons' = <<>>
    /\ settled' = <<>>
    /\ raw' = <<>>
    /\ last' = "mount"

\* A raw browser event reaches the handler registered for it.  touch: whether
\* a touch event carries a changed touch (always TRUE for the other events).
OnEvent(ev, touch) ==
    /\ UNCHANGED <<serverVars, dwellVars>>
    /\ ev \in ListenerEvents
    /\ ev \in TouchEvents \/ touch
    /\ seqRef < MaxSeq
    /\ \E view \in 1..pvCount :
          /\ <<Registration(ev), view>> \in listeners
          /\ IF touchGuard(ev, touch)
             THEN /\ UNCHANGED <<queueRef, seqRef, created, maxDepthRef>>
                  /\ last' = "event_ignored"
             ELSE LET m == getScrollMetrics(doc)
                      maxDepth == IF ev = "scroll"
                                  THEN runningMax(maxDepthRef, m.depthPct)
                                  ELSE maxDepthRef
                      p == push(queueRef, seqRef, view, pageSessionIdRef, sessionIdRef,
                                IF ev = "scroll" THEN sampledPartial(ev, m, maxDepth)
                                ELSE plainPartial(ev))
                  IN /\ maxDepthRef' = maxDepth
                     /\ queueRef' = p.queue
                     /\ seqRef' = p.seq
                     /\ created' = Append(created, p.queue[Len(p.queue)])
                     /\ last' = "event"
    /\ raw' = <<ev, touch>>
    /\ UNCHANGED <<tabVars, idVars, viewVars, hookVars, envVars, status, flushingRef,
                   inflight, sids, delivered, beacons, enterAtRef, installedAt>>
    /\ settled' = <<>>

\* sampleTimer tick.
Heartbeat ==
    /\ UNCHANGED <<serverVars, dwellVars>>
    /\ seqRef < MaxSeq
    /\ \E view \in 1..pvCount :
          /\ <<"sampleTimer", view>> \in timers
          /\ LET m == getScrollMetrics(doc)
                 maxDepth == runningMax(maxDepthRef, m.depthPct)
                 p == push(queueRef, seqRef, view, pageSessionIdRef, sessionIdRef,
                           sampledPartial("heartbeat", m, maxDepth))
             IN /\ maxDepthRef' = maxDepth
                /\ queueRef' = p.queue
                /\ seqRef' = p.seq
                /\ created' = Append(created, p.queue[Len(p.queue)])
    /\ last' = "heartbeat"
    /\ UNCHANGED <<envVars, enterAtRef, installedAt>>
    /\ UNCHANGED <<tabVars, idVars, viewVars, hookVars, status, flushingRef, inflight, sids,
                   delivered, beacons>>
    /\ settled' = <<>>
    /\ raw' = <<>>

\* flushTimer tick: void flush().
FlushTick ==
    /\ UNCHANGED <<serverVars, dwellVars>>
    /\ \E view \in 1..pvCount : <<"flushTimer", view>> \in timers
    /\ LET f == flush(queueRef, flushingRef, inflight)
       IN /\ queueRef' = f.queue
          /\ flushingRef' = f.flushing
          /\ inflight' = f.inflight
          /\ last' = f.did
    /\ UNCHANGED <<envVars, pageRefs>>
    /\ UNCHANGED <<tabVars, idVars, viewVars, hookVars, status, seqRef, sids, created,
                   delivered, beacons>>
    /\ settled' = <<>>
    /\ raw' = <<>>

\* The awaited sendEvents(batch) settles: catch requeues on rejection,
\* finally clears the flag.  The endpoint has the batch when it answered 2xx.
FlushSettle(outcome) ==
    /\ UNCHANGED <<serverVars, dwellVars>>
    /\ inflight # <<>>
    /\ LET batch == Head(inflight)
       IN /\ queueRef' = IF sendEvents(outcome) = "rejected"
                         THEN unshift(queueRef, batch)
                         ELSE queueRef
          /\ delivered' = IF outcome = "ok" THEN delivered \cup SeqsOf(batch)
                          ELSE delivered
    /\ inflight' = Tail(inflight)
    /\ flushingRef' = finallyFlag(sendEvents(outcome))
    /\ last' = CASE outcome = "ok" -> "settle_ok"
                 [] outcome = "http_error" -> "settle_http_error"
                 [] outcome = "network_error" -> "settle_network_error"
    /\ UNCHANGED <<envVars, pageRefs>>
    /\ UNCHANGED <<tabVars, idVars, viewVars, hookVars, status, seqRef, sids, created,
                   beacons>>
    /\ settled' = Head(inflight)
    /\ raw' = <<>>

\* beforeunload / pagehide: one synthetic page_exit in front of the queue, one
\* sendBeacon, queue cleared.  accepted: whether the beacon reaches the endpoint.
handleUnload(accepted) ==
    /\ UNCHANGED <<serverVars, dwellVars>>
    /\ seqRef < MaxSeq
    /\ \E view \in 1..pvCount :
          /\ \E r \in UnloadRegistrations : <<r, view>> \in listeners
          /\ LET exitRec == EventPayload(NextSeq(seqRef), view, pageSessionIdRef,
                                         sessionIdRef,
                                         exitPartial(now, enterAtRef, maxDepthRef))
                 payloads == unloadPayloads(exitRec, queueRef)
             IN /\ seqRef' = exitRec.seq
                /\ created' = Append(created, exitRec)
                /\ beacons' = Append(beacons, payloads)
                /\ delivered' = IF accepted THEN delivered \cup SeqsOf(payloads)
                                ELSE delivered
    /\ queueRef' = clearQueue(queueRef)
    /\ last' = "handleUnload"
    /\ UNCHANGED <<envVars, pageRefs>>
    /\ UNCHANGED <<tabVars, idVars, viewVars, hookVars, status, flushingRef, inflight, sids>>
    /\ settled' = <<>>
    /\ raw' = <<>>

\* Effect cleanup when the component unmounts: push page_exit, clear timers,
\* remove listeners, void flush().
Unmount ==
    /\ UNCHANGED <<serverVars, dwellVars>>
    /\ status = "active"
    /\ seqRef < MaxSeq
    /\ LET p == push(queueRef, seqRef, pvCount, pageSessionIdRef, sessionIdRef,
                     exitPartial(now, enterAtRef, maxDepthRef))
           f == flush(p.queue, flushingRef, inflight)
       IN /\ seqRef' = p.seq
          /\ created' = Append(created, p.queue[Len(p.queue)])
          /\ queueRef' = f.queue
          /\ flushingRef' = f.flushing
          /\ inflight' = f.inflight
    /\ timers' = clearTimers(timers, pvCount)
    /\ listeners' = removeListeners(listeners, pvCount)
    /\ status' = "unmounted"
    /\ UNCHANGED <<envVars, pageRefs>>
    /\ last' = "unmount"
    /\ UNCHANGED <<tabVars, idVars, viewVars, sids, delivered, beacons>>
    /\ settled' = <<>>
    /\ raw' = <<>>

\* Re-render of the same instance with a changed dependency (pageId,
\* condition, participantId, profile): the hook body runs again on the same
\* refs, React runs the cleanup and then the effect in one commit.
Reinstall ==
    /\ UNCHANGED <<serverVars, dwellVars>>
    /\ status = "active"
    /\ pvCount < MaxPageViews
    /\ seqRef + 1 < MaxSeq
    /\ LET sess == ReadOrCreate(sessionIdRef, storage, idGen)
           x == push(queueRef, seqRef, pvCount, pageSessionIdRef, sess.ref,
                     exitPartial(now, enterAtRef, maxDepthRef))
           f == flush(x.queue, flushingRef, inflight)
           initialMetrics == getScrollMetrics(doc)
           e == push(f.queue, x.seq, pvCount + 1, pageSessionIdRef, sess.ref,
                     enterPartial(initialMetrics))
           enterRec == e.queue[Len(e.queue)]
       IN /\ maxDepthRef' = initialMetrics.depthPct
          /\ storage' = sess.stored
          /\ idGen' = sess.gen
          /\ sessionIdRef' = sess.ref
          /\ seqRef' = e.seq
          /\ created' = created \o <<x.queue[Len(x.queue)], enterRec>>
          /\ queueRef' = e.queue
          /\ flushingRef' = f.flushing
          /\ inflight' = f.inflight
          /\ enterLog' = Append(enterLog, enterRec)
          /\ sids' = sids \cup {sess.ref}
    /\ timers' = clearTimers(timers, pvCount) \cup startTimers(pvCount + 1)
    /\ listeners' = removeListeners(listeners, pvCount) \cup addListeners(pvCount + 1)
    /\ pvCount' = pvCount + 1
    /\ enterAtRef' = now
    /\ installedAt' = now
    /\ UNCHANGED envVars
    /\ last' = "reinstall"
    /\ UNCHANGED <<pageSessionIdRef, status, delivered, beacons>>
    /\ settled' = <<>>
    /\ raw' = <<>>

\* Time passes.
Tick ==
    /\ UNCHANGED <<serverVars, dwellVars>>
    /\ now < MaxTime
    /\ now' = now + 1
    /\ UNCHANGED <<tabVars, idVars, viewVars, hookVars, pageRefs, status, seqRef,
                   queueRef, flushingRef, inflight, doc, metrics, sids, created,
                   delivered, beacons, settled, raw, last>>

\* The user scrolls the page (the scroll event is dispatched separately).
ScrollTo(d) ==
    /\ UNCHANGED <<serverVars, dwellVars>>
    /\ status = "active"
    /\ d # doc
    /\ doc' = d
    /\ UNCHANGED <<tabVars, idVars, viewVars, hookVars, pageRefs, status, seqRef,
                   queueRef, flushingRef, inflight, now, metrics, sids, created,
                   delivered, beacons, settled, raw, last>>

\* One call of getScrollMetrics() on the current document.
Measure ==
    /\ UNCHANGED <<serverVars, dwellVars>>
    /\ metrics' = getScrollMetrics(doc)
    /\ UNCHANGED <<tabVars, idVars, viewVars, hookVars, pageRefs, status, seqRef,
                   queueRef, flushingRef, inflight, now, doc, sids, created,
                   delivered, beacons, settled, raw, last>>

Next ==
    \/ Mount
    \/ \E e \in FiredEvents : OnEvent(e[1], e[2])
    \/ Heartbeat
    \/ FlushTick
    \/ \E outcome \in Outcomes : FlushSettle(outcome)
    \/ \E accepted \in BOOLEAN : handleUnload(accepted)
    \/ Unmount
    \/ Reinstall

Spec == Init /\ [][Next]_vars

\* A page-view with its clock and its scroll position: mount, scroll listener,
\* sampler and teardown while time passes and the user scrolls.
NextPage ==
    \/ Mount
    \/ OnEvent("scroll", TRUE)
    \/ Heartbeat
    \/ Unmount
    \/ Reinstall
    \/ Tick
    \/ \E d \in PageDocs : ScrollTo(d)

SpecPage == InitOn(PageDocs) /\ [][NextPage]_vars

\* The Metrics Extractor alone, on every geometry of DocSpace.
SpecMetrics == InitOn(DocSpace) /\ [][Measure]_vars

\* The timers keep firing while the page lives, every fetch settles, and the
\* endpoint does not refuse for ever.
FairSpec ==
    /\ Spec
    /\ WF_vars(FlushTick)
    /\ WF_vars(\E outcome \in Outcomes : FlushSettle(outcome))
    /\ SF_vars(FlushSettle("ok"))

\* ---- the collection endpoint: POST /api/events --------------------------------
\* A JSON value, as far as the handler looks at it: its type, the type of its
\* events member, and the elements when that member is an array.
\* Event arrays of every length up to MaxEvents, neighbours differing.
Items == {[k \in 1..n |-> IF k % 2 = 1 THEN "e2" ELSE "e1"] : n \in 0..MaxEvents}
Json(shape, events, items) == [shape |-> shape, events |-> events, items |-> items]
JsonValues ==
    {Json(sh, "absent", <<>>) : sh \in {"null", "number", "array", "object"}}
    \cup {Json("object", e, <<>>) : e \in {"string", "object"}}
    \cup {Json("object", "array", it) : it \in Items}

\* req.body as the body parsers leave it: undefined, a string (text/plain, the
\* type a string beacon has), or the parsed object or array (application/json;
\* {} when the request had no body).
Body(kind, text, value) == [kind |-> kind, text |-> text, value |-> value]
Bodies ==
    {Body("undefined", "", Json("null", "absent", <<>>)),
     Body("string", "", Json("null", "absent", <<>>)),
     Body("string", "garbage", Json("null", "absent", <<>>))}
    \cup {Body("string", "json", v) : v \in JsonValues}
    \cup {Body("object", "", v) : v \in {w \in JsonValues : w.shape \in {"object", "array"}}}

\* JSON.parse(body)
JSONparse(body) == [threw |-> body.text # "json", value |-> body.value]

\* Array.isArray(v?.events)
isArrayEvents(v) == v.shape = "object" /\ v.events = "array"

\* Variant: a body without an events array counts as an empty batch.
normalizeEvents_EmptyForInvalid(body) ==
    IF body.kind # "undefined" /\ ~(body.kind = "string" /\ body.text # "json")
          /\ isArrayEvents(body.value)
    THEN [isNull |-> FALSE, events |-> body.value.items]
    ELSE [isNull |-> FALSE, events |-> <<>>]

normalizeEvents(body) ==
    LET null == [isNull |-> TRUE, events |-> <<>>]
    IN IF body.kind = "undefined" \/ (body.kind = "string" /\ body.text = "")
       THEN null
       ELSE IF body.kind = "string"
            THEN IF JSONparse(body).threw THEN null
                 ELSE IF isArrayEvents(JSONparse(body).value)
                      THEN [isNull |-> FALSE, events |-> JSONparse(body).value.items]
                      ELSE null
            ELSE IF isArrayEvents(body.value)
                 THEN [isNull |-> FALSE, events |-> body.value.items]
                 ELSE null

\* Text written to the log: the JSON text of one event, or a line feed.
JsonText(event) == [nl |-> FALSE, event |-> event]
Newline == [nl |-> TRUE, event |-> ""]

RECURSIVE join(_)
\* parts.join('\n')
join(parts) ==
    IF Len(parts) = 0 THEN <<>>
    ELSE IF Len(parts) = 1 THEN <<parts[1]>>
    ELSE <<parts[1], Newline>> \o join(Tail(parts))

\* events.map(JSON.stringify).join('\n') + '\n'
lines(events) == join([i \in DOMAIN events |-> JsonText(events[i])]) \o <<Newline>>

\* res.status(..).json(..); count is -1 when the answer carries none.
Response(code, ok, count) == [status |-> code, ok |-> ok, count |-> count]
NoResponse == Response(0, FALSE, -1)

\* The handler up to its first await: 400 for a body without events array,
\* else the lines are built and the append is started.
PostEvents(body) ==
    /\ Len(requests) < MaxRequests
    /\ LET events == normalizeEvents(body)
       IN requests' = Append(requests,
             IF events.isNull
             THEN [body |-> body, events |-> <<>>, state |-> "invalid",
                   res |-> Response(400, FALSE, -1), at |-> 0, wrote |-> <<>>]
             ELSE [body |-> body, events |-> events.events, state |-> "appending",
                   res |-> NoResponse, at |-> 0, wrote |-> <<>>])
    /\ UNCHANGED <<eventLog, loggerVars, dwellVars>>

\* await mkdir / await appendFile settle: the text is in the file, or the
\* file system refused.
AppendFile(i, fsOk) ==
    /\ i \in DOMAIN requests
    /\ requests[i].state = "appending"
    /\ IF fsOk
       THEN /\ eventLog' = eventLog \o lines(requests[i].events)
            /\ requests' = [requests EXCEPT ![i].state = "appended",
                                            ![i].at = Len(eventLog),
                                            ![i].wrote = lines(requests[i].events)]
       ELSE /\ eventLog' = eventLog
            /\ requests' = [requests EXCEPT ![i].state = "failed"]
    /\ UNCHANGED <<loggerVars, dwellVars>>

\* The handler continues after the await: success with the count, or the
\* catch block's 500.
Respond(i) ==
    /\ i \in DOMAIN requests
    /\ requests[i].state \in {"appended", "failed"}
    /\ requests[i].res = NoResponse
    /\ requests' = [requests EXCEPT ![i].res =
                       IF requests[i].state = "appended"
                       THEN Response(200, TRUE, Len(requests[i].events))
                       ELSE Response(500, FALSE, -1)]
    /\ UNCHANGED <<eventLog, loggerVars, dwellVars>>

NextServer ==
    \/ \E body \in Bodies : PostEvents(body)
    \/ \E i \in 1..MaxRequests, fsOk \in BOOLEAN : AppendFile(i, fsOk)
    \/ \E i \in 1..MaxRequests : Respond(i)

SpecServer == Init /\ [][NextServer]_vars

\* ---- the midline dwell observer ------------------------------------------------
\* staying.has(postId) / staying.get(postId) / staying.delete(postId) / set
stayingHas(m, p) == \E i \in DOMAIN m : m[i].postId = p
stayingGet(m, p) == (CHOOSE i \in DOMAIN m : m[i].postId = p)
stayingDelete(m, p) == SelectSeq(m, LAMBDA e : e.postId # p)
stayingSet(m, p, t) ==
    IF stayingHas(m, p)
    THEN [i \in DOMAIN m |-> IF m[i].postId = p THEN [postId |-> p, startedAt |-> t]
                                               ELSE m[i]]
    ELSE Append(m, [postId |-> p, startedAt |-> t])

\* Variant: the wait timer survives the leave.
cancelWait_Missing(m, p) == m

\* clearTimeout(waitTimer); pending.delete(postId)
cancelWait(m, p) == [m EXCEPT ![p] = NoTimer]

Call(call, eventType, p, dwellMs, trigger) ==
    [call |-> call, eventType |-> eventType, postId |-> p, dwellMs |-> dwellMs,
     trigger |-> trigger]

\* The two calls that report a stay; nothing when dwellMs <= 0.
stayCalls(p, dwellMs, trigger) ==
    IF dwellMs <= 0 THEN <<>>
    ELSE <<Call("logInteraction", "stay", p, dwellMs, trigger),
           Call("saveAction", "dwell", p, dwellMs, trigger)>>

RECURSIVE cleanupCalls(_, _)
\* staying.forEach(...) of the effect cleanup
cleanupCalls(m, t) ==
    IF m = <<>> THEN <<>>
    ELSE stayCalls(m[1].postId, t - m[1].startedAt, "observer_cleanup")
            \o cleanupCalls(Tail(m), t)

\* Time passes on the page, half a wait at a time.
Elapse ==
    /\ clock + (WaitMs \div 2) <= MaxTime * WaitMs
    /\ clock' = clock + (WaitMs \div 2)
    /\ UNCHANGED <<observing, notified, pending, staying, viewedRef, interactions,
                   loggerVars, serverVars>>

\* The effect runs: fresh maps, a new observer observing every node.
Observe ==
    /\ ~observing
    /\ observing' = TRUE
    /\ notified' = [p \in Posts |-> "none"]
    /\ pending' = [p \in Posts |-> NoTimer]
    /\ staying' = <<>>
    /\ UNCHANGED <<clock, viewedRef, interactions, loggerVars, serverVars>>

\* The observer's callback for one entry.  The browser delivers an entry for a
\* node when it is first observed and whenever its isIntersecting changes.
OnEntry(p, isIntersecting) ==
    /\ observing
    /\ notified[p] # (IF isIntersecting THEN "in" ELSE "out")
    /\ notified' = [notified EXCEPT ![p] = IF isIntersecting THEN "in" ELSE "out"]
    /\ IF isIntersecting
       THEN /\ viewedRef' = viewedRef \cup {p}
            /\ interactions' =
                  IF p \in viewedRef THEN interactions
                  ELSE Append(interactions,
                              Call("logInteraction", "view", p, 0, "midline_enter"))
            /\ pending' = IF pending[p] = NoTimer /\ ~stayingHas(staying, p)
                          THEN [pending EXCEPT ![p] = clock + WaitMs]
                          ELSE pending
            /\ UNCHANGED staying
       ELSE /\ pending' = IF pending[p] # NoTimer THEN cancelWait(pending, p)
                          ELSE pending
            /\ IF ~stayingHas(staying, p)
               THEN UNCHANGED <<staying, interactions>>
               ELSE /\ staying' = stayingDelete(staying, p)
                    /\ interactions' = interactions \o
                          stayCalls(p, clock - staying[stayingGet(staying, p)].startedAt,
                                    "midline_leave")
            /\ UNCHANGED viewedRef
    /\ UNCHANGED <<clock, observing, loggerVars, serverVars>>

\* A wait timer fires, at or after the time it is due.
WaitTimer(p) ==
    /\ pending[p] # NoTimer
    /\ clock >= pending[p]
    /\ pending' = [pending EXCEPT ![p] = NoTimer]
    /\ staying' = stayingSet(staying, p, clock)
    /\ UNCHANGED <<clock, observing, notified, viewedRef, interactions, loggerVars,
                   serverVars>>

\* The effect's cleanup: clear the wait timers, report the open stays,
\* disconnect.  The maps die with the closure.
ObserverCleanup ==
    /\ observing
    /\ pending' = [p \in Posts |-> NoTimer]
    /\ interactions' = interactions \o cleanupCalls(staying, clock)
    /\ staying' = <<>>
    /\ observing' = FALSE
    /\ UNCHANGED <<clock, notified, viewedRef, loggerVars, serverVars>>

NextDwell ==
    \/ Elapse
    \/ Observe
    \/ \E p \in Posts, isIntersecting \in BOOLEAN : OnEntry(p, isIntersecting)
    \/ \E p \in Posts : WaitTimer(p)
    \/ ObserverCleanup

SpecDwell == Init /\ [][NextDwell]_vars

\* ---- properties ---------------------------------------------------------------
IsPrefix(a, b) == Len(a) <= Len(b) /\ SubSeq(b, 1, Len(a)) = a

NoDuplicates(q) == Cardinality(SeqsOf(q)) = Len(q)

Beaconed == UNION {SeqsOf(beacons[i]) : i \in DOMAIN beacons}

\* C1: when the awaited delivery rejects, the whole drained batch goes back to
\* the head of the queue in its original order, ahead of everything pushed during
\* the attempt; nothing is lost and nothing is duplicated.
C1_RejectRequeuesAtFront ==
    [][last' = "settle_network_error" =>
          /\ queueRef' = Head(inflight) \o queueRef
          /\ NoDuplicates(queueRef')]_vars

C1_Witness ==
    /\ last = "settle_network_error"
    /\ Len(settled) = 2
    /\ Len(queueRef) = 3
    /\ IsPrefix(settled, queueRef)

\* C2: a non-success HTTP answer to a periodic flush is treated as a failure:
\* the batch is put back at the front of the queue, not discarded.
C2_HttpErrorRequeues ==
    [][last' = "settle_http_error" => queueRef' = Head(inflight) \o queueRef]_vars

\* C3: at most one flush delivery is in flight; a flush tick or the teardown
\* flush that runs while one is in flight starts no delivery and leaves the queue
\* as it was (teardown having appended its page_exit, re-install its page_enter).
C3_SingleFlight ==
    /\ [](Len(inflight) <= 1)
    /\ [][inflight # <<>> =>
            /\ (last' \in {"flush_skip", "flush_empty", "flush_start"} =>
                  inflight' = inflight /\ queueRef' = queueRef)
            /\ (last' = "unmount" =>
                  /\ inflight' = inflight
                  /\ Len(queueRef') = Len(queueRef) + 1
                  /\ IsPrefix(queueRef, queueRef'))
            /\ (last' = "reinstall" =>
                  /\ inflight' = inflight
                  /\ Len(queueRef') = Len(queueRef) + 2
                  /\ IsPrefix(queueRef, queueRef'))]_vars

C3_Witness ==
    /\ last = "flush_skip"
    /\ Len(inflight) = 1
    /\ flushingRef
    /\ queueRef # <<>>

\* C4: the seq values assigned so far by push and by the Unload Guard are
\* exactly 1..k, in creation order, one record each.
C4_SeqDense ==
    /\ Len(created) = seqRef
    /\ \A i \in DOMAIN created : created[i].seq = i

C4_Witness ==
    /\ last = "settle_network_error"
    /\ beacons # <<>>
    /\ Len(created) >= 3
    /\ \E i \in DOMAIN created : created[i].event = "heartbeat"

\* C5: once a record has been delivered, no record with a smaller seq is
\* delivered for the first time afterwards.
C5_DeliveryInSeqOrder ==
    [][\A s \in delivered' \ delivered : \A t \in delivered : t < s]_vars

\* C6: while the instance stays active and the transport eventually succeeds,
\* every record that was created is eventually delivered (a record handed to the
\* Unload Guard's beacon counts as delivered).
C6_EventuallyDelivered ==
    \A s \in 1..MaxSeq :
        (status = "active" /\ s <= seqRef)
            ~> (s \in delivered \/ s \in Beaconed \/ status # "active")

\* C7: one trigger of the Unload Guard on a queue of n records makes exactly one
\* beacon send of n+1 records, the synthetic page_exit with a fresh seq in front
\* of the queue in queue order, and empties the queue whether or not the beacon is
\* accepted; no fetch is started and nothing is requeued.
C7_UnloadSendsAllOnce ==
    [][last' = "handleUnload" =>
          /\ Len(beacons') = Len(beacons) + 1
          /\ LET payloads == beacons'[Len(beacons')]
             IN /\ Len(payloads) = Len(queueRef) + 1
                /\ payloads[1].event = "page_exit"
                /\ payloads[1].seq = seqRef + 1
                /\ seqRef' = seqRef + 1
                /\ Tail(payloads) = queueRef
          /\ queueRef' = <<>>
          /\ inflight' = inflight
          /\ flushingRef' = flushingRef]_vars

C7_Witness ==
    /\ last = "handleUnload"
    /\ beacons # <<>>
    /\ Len(beacons[Len(beacons)]) = 3
    /\ queueRef = <<>>

\* C8: the page_enter record of every logical page-view, re-installs included,
\* has seq 1.
C8_EnterHasSeqOne ==
    \A i \in DOMAIN enterLog : enterLog[i].seq = 1

\* C9: two successive logical page-views carry different pageSessionId values,
\* and all records of one page-view carry the same pageSessionId.
C9_FreshPageSessionId ==
    /\ \A i \in DOMAIN enterLog :
          i > 1 => enterLog[i].pageSessionId # enterLog[i - 1].pageSessionId
    /\ \A i, j \in DOMAIN created :
          created[i].view = created[j].view =>
              created[i].pageSessionId = created[j].pageSessionId

\* C10: sessionId is read-or-create: every record of the tab carries the one
\* stored session id, and a stored value is never overwritten.
C10_SessionIdStable ==
    /\ [](/\ Cardinality(sids) <= 1
          /\ sids # {} => sids = {storage}
          /\ \A i \in DOMAIN created : created[i].sessionId = storage
          /\ status = "active" => sessionIdRef = storage)
    /\ [][storage # Empty => storage' = storage]_vars

C10_Witness ==
    /\ pvCount = 2
    /\ last = "mount"
    /\ storage = NewId("s", 1)
    /\ sids = {storage}

\* ---- properties of the page-view lifecycle ---------------------------------------
OneView(q) == \A i, j \in DOMAIN q : q[i].view = q[j].view

\* The page-view has been torn down (its cleanup ran).
TornDown(view) == view < pvCount \/ (view = pvCount /\ status = "unmounted")

\* A periodic-flush batch that was in flight when its page-view was torn down:
\* the teardown's own batch carries that page-view's page_exit, this one does not.
InFlightAtTeardown(batch) ==
    \A i \in DOMAIN batch : TornDown(batch[i].view) /\ batch[i].event # "page_exit"

\* C14: the queue and every flush batch hold records of one page-view only, and
\* the queue holds nothing but the page_enter when a page-view has just started.
C14_QueueOfOneView ==
    /\ OneView(queueRef)
    /\ \A k \in DOMAIN inflight : OneView(inflight[k])
    /\ last \in {"mount", "reinstall"} => Len(queueRef) = 1

\* C15: teardown and the Unload Guard may both run for one page-view; no record
\* handed to a beacon is in the queue or in a flush batch afterwards.
C15_BeaconedNotResent ==
    /\ SeqsOf(queueRef) \cap Beaconed = {}
    /\ \A k \in DOMAIN inflight : SeqsOf(inflight[k]) \cap Beaconed = {}

C15_Witness ==
    /\ last \in {"unmount", "reinstall"}
    /\ beacons # <<>>
    /\ Len(beacons[1]) >= 2
    /\ inflight # <<>>
    /\ \E i \in DOMAIN inflight[Len(inflight)] :
          inflight[Len(inflight)][i].event = "page_exit"

\* C16: every teardown starts a delivery that carries the final page_exit and
\* everything that was queued, also while a periodic flush is in flight.
C16_TeardownStartsDelivery ==
    [][last' \in {"unmount", "reinstall"} =>
          \E k \in DOMAIN inflight' :
              /\ k > Len(inflight)
              /\ IsPrefix(queueRef, inflight'[k])
              /\ (seqRef + 1) \in SeqsOf(inflight'[k])]_vars

\* C17: after the teardown of a page-view nothing creates a record for it, sends
\* or advances seq: every listener and both timers are gone, and no record of a
\* page-view is created after the page_enter of a later one.
C17_QuietAfterTeardown ==
    /\ [](status = "unmounted" => listeners = {} /\ timers = {})
    /\ []((\A l \in listeners : l[2] = pvCount) /\ (\A t \in timers : t[2] = pvCount))
    /\ [](\A i, j \in DOMAIN created : i < j => created[i].view <= created[j].view)
    /\ [][(status = "unmounted" /\ last' # "mount") =>
            /\ created' = created
            /\ seqRef' = seqRef
            /\ beacons' = beacons
            /\ Len(inflight') <= Len(inflight)]_vars

C17_Witness ==
    /\ status = "unmounted"
    /\ last \in {"settle_ok", "settle_http_error", "settle_network_error"}
    /\ \E i \in DOMAIN created : created[i].event = "scroll"
    /\ \E i \in DOMAIN created : created[i].event = "heartbeat"

\* C18: a periodic-flush delivery that was in flight at teardown and settles
\* afterwards leaves the queue as it was.
C18_LateSettleNoEffect ==
    [][(last' \in {"settle_ok", "settle_http_error", "settle_network_error"}
          /\ inflight # <<>> /\ InFlightAtTeardown(Head(inflight)))
        => queueRef' = queueRef]_vars

C20_EnterFirstExitLast ==
    /\ \A j \in DOMAIN created :
          \E i \in 1..j :
              /\ created[i].view = created[j].view
              /\ created[i].event = "page_enter"
              /\ i # j => created[i].seq < created[j].seq
    /\ \A x \in DOMAIN created :
          (TornDown(created[x].view)
             /\ \A j \in DOMAIN created : created[j].view = created[x].view => j <= x)
          => /\ created[x].event = "page_exit"
             /\ \A j \in DOMAIN created :
                   (created[j].view = created[x].view
                      /\ created[j].event \in ListenerEvents \cup {"heartbeat"})
                   => created[j].seq < created[x].seq

C20_Witness ==
    /\ last = "reinstall"
    /\ Len(created) = 4
    /\ created[2].event \in ListenerEvents \cup {"heartbeat"}
    /\ created[3].event = "page_exit"
    /\ created[4].event = "page_enter"

\* ---- page-view clock and scroll depth (SpecPage, SpecMetrics) ---------------
Sampled == {"scroll", "heartbeat"}
Measured == DOMAIN metrics # {}

\* C11: an unmount that directly follows the mount (no listener event and no
\* timer tick in between, whatever time passes) leaves exactly two records,
\* page_enter with seq 1 then page_exit with seq 2, and the page_exit's dwellMs
\* is the time elapsed between the mount and the unmount.
C11_MountUnmountTwoRecords ==
    [][(last = "mount" /\ last' = "unmount") =>
          /\ Len(created') = 2
          /\ created'[1].event = "page_enter" /\ created'[1].seq = 1
          /\ created'[2].event = "page_exit" /\ created'[2].seq = 2
          /\ created'[2].dwellMs = now' - installedAt']_vars

C11_Witness ==
    /\ last = "unmount"
    /\ Len(created) = 2
    /\ installedAt >= 1
    /\ created[2].event = "page_exit"
    /\ created[2].dwellMs >= 1

\* C12: within one page-view the maxDepthPct of successive scroll and heartbeat
\* records never decreases, and each record's maxDepthPct is at least the depth
\* measured for that record.
C12_MaxDepthMonotone ==
    /\ \A i, j \in DOMAIN created :
          (i < j /\ created[i].view = created[j].view
             /\ created[i].event \in Sampled /\ created[j].event \in Sampled)
          => created[i].maxDepthPct <= created[j].maxDepthPct
    /\ \A i \in DOMAIN created :
          created[i].event \in Sampled => created[i].maxDepthPct >= created[i].depth

C12_Witness ==
    \E i, j \in DOMAIN created :
        /\ i < j /\ created[i].view = created[j].view
        /\ created[i].event = "scroll" /\ created[j].event = "heartbeat"
        /\ created[j].depth < created[i].depth
        /\ created[j].maxDepthPct = created[i].maxDepthPct
        /\ created[j].maxDepthPct > created[j].depth

\* C13: for every document geometry getScrollMetrics divides by a maxScrollable
\* of at least 1 and returns a depthPct between 0 and 100.
C13_DepthPctInRange ==
    Measured =>
        /\ metrics.maxScrollable >= 1
        /\ RatLeq(Rat(0, 1), metrics.depthPct)
        /\ RatLeq(metrics.depthPct, Rat(100, 1))

C13_Witness ==
    /\ Measured
    /\ doc.rootScrollHeight = doc.rootClientHeight
    /\ metrics.scrollHeight = metrics.clientHeight
    /\ metrics.maxScrollable = 1
    /\ metrics.scrollTop = 500
    /\ RatLeq(Rat(100, 1), metrics.depthPct)

\* ---- drains, requeues and the Unload Guard together ---------------------------
InFlight == UNION {SeqsOf(inflight[k]) : k \in DOMAIN inflight}

\* Records the endpoint accepted from a flush delivery.
FlushDelivered == delivered \ Beaconed

\* C21: once a flush delivery has succeeded, none of its records is in the queue
\* or in a batch in flight, and no later beacon payload contains one of them.
C21_DeliveredDiscarded ==
    /\ [](FlushDelivered \cap (SeqsOf(queueRef) \cup InFlight) = {})
    /\ [][last' = "settle_ok" => SeqsOf(settled') \cap SeqsOf(queueRef') = {}]_vars
    /\ [][last' = "handleUnload" =>
             SeqsOf(beacons'[Len(beacons')]) \cap delivered = {}]_vars

C21_Witness ==
    /\ last = "handleUnload"
    /\ FlushDelivered # {}
    /\ Len(beacons[Len(beacons)]) >= 2

\* C22: a flush tick that finds the queue empty starts no delivery and changes
\* neither the flushing flag (false when the tick got as far as the drain), nor
\* the queue, nor the seq counter.
C22_EmptyFlushNoOp ==
    [][(last' \in {"flush_skip", "flush_empty", "flush_start"} /\ queueRef = <<>>) =>
          /\ inflight' = inflight
          /\ flushingRef' = flushingRef
          /\ (last' = "flush_empty" => ~flushingRef')
          /\ queueRef' = <<>>
          /\ seqRef' = seqRef]_vars

C22_Witness ==
    /\ last = "flush_empty"
    /\ status = "active"
    /\ delivered # {}
    /\ queueRef = <<>>
    /\ ~flushingRef

\* C23: the queue is in strictly increasing seq order in every reachable state.
C23_QueueSeqIncreasing ==
    \A i, j \in DOMAIN queueRef : i < j => queueRef[i].seq < queueRef[j].seq

C23_Witness ==
    /\ last = "settle_network_error"
    /\ beacons # <<>>
    /\ Len(settled) >= 1
    /\ Len(queueRef) > Len(settled)

\* C26: every record created so far is in exactly one of: the queue, the batch
\* in flight, the records delivered by a flush, the records sent in a beacon;
\* and no seq is twice in the queue.
C26_Conservation ==
    /\ NoDuplicates(queueRef)
    /\ \A s \in SeqsOf(created) :
          Cardinality({place \in {"queue", "inflight", "delivered", "beacon"} :
              \/ place = "queue" /\ s \in SeqsOf(queueRef)
              \/ place = "inflight" /\ s \in InFlight
              \/ place = "delivered" /\ s \in FlushDelivered
              \/ place = "beacon" /\ s \in Beaconed}) = 1

\* C27: the flushing flag is true exactly while a delivery is in flight, and the
\* step in which a delivery settles, resolved or rejected, leaves it false.
C27_FlagIffInFlight ==
    /\ [](flushingRef <=> inflight # <<>>)
    /\ [][last' \in {"settle_ok", "settle_http_error", "settle_network_error"}
             => ~flushingRef']_vars

C27_Witness ==
    /\ last = "flush_start"
    /\ flushingRef
    /\ \E i \in DOMAIN inflight[1] : inflight[1][i].seq = 1
    /\ Len(created) > Len(inflight[1])

\* C28: no page-view has more than one page_exit record.
C28_OneExitPerView ==
    \A i, j \in DOMAIN created :
        (created[i].event = "page_exit" /\ created[j].event = "page_exit"
           /\ created[i].view = created[j].view) => i = j

\* C29: the payload of an Unload Guard beacon contains its page_exit and every
\* record that was waiting for delivery, in the queue or in a batch in flight.
C29_BeaconHasAllUndelivered ==
    [][last' = "handleUnload" =>
          (SeqsOf(queueRef) \cup InFlight \cup {seqRef'})
              \subseteq SeqsOf(beacons'[Len(beacons')])]_vars

\* ---- the collection endpoint (SpecServer) ---------------------------------------
\* The body carries an events array.
HasEventsArray(body) ==
    /\ body.kind \in {"string", "object"}
    /\ body.kind = "string" => body.text = "json"
    /\ body.value.shape = "object"
    /\ body.value.events = "array"

RECURSIVE SplitLines(_, _)
\* The lines of a text: the pieces ended by a line feed (and an unended rest).
SplitLines(text, cur) ==
    IF text = <<>> THEN (IF cur = <<>> THEN <<>> ELSE <<cur>>)
    ELSE IF Head(text).nl THEN <<cur>> \o SplitLines(Tail(text), <<>>)
    ELSE SplitLines(Tail(text), Append(cur, Head(text)))

RECURSIVE WrittenBy(_)
\* The total length of what the first k requests wrote.
WrittenBy(k) == IF k = 0 THEN 0 ELSE Len(requests[k].wrote) + WrittenBy(k - 1)

\* C24: a request whose body carries no events array is answered 400 in the step
\* that receives it, and it never writes to the event log.
C24_NoArrayIs400 ==
    /\ \A i \in DOMAIN requests :
          ~HasEventsArray(requests[i].body) =>
              /\ requests[i].res.status = 400
              /\ requests[i].state = "invalid"
              /\ requests[i].wrote = <<>>
    /\ Len(eventLog) = WrittenBy(Len(requests))

C24_Witness ==
    \E i, j \in DOMAIN requests :
        /\ requests[i].body.kind = "string" /\ requests[i].body.text = "garbage"
        /\ requests[i].res.status = 400
        /\ requests[j].state = "appended" /\ Len(requests[j].events) = 2
        /\ Len(SplitLines(eventLog, <<>>)) = 2

\* C25: a request with an array of n events is answered with success only when
\* the answer counts n and the request has appended exactly n lines to the log,
\* the JSON text of each event in the order received; a request whose append
\* failed is answered 500.
C25_SuccessAfterNLines ==
    \A i \in DOMAIN requests :
        LET r == requests[i]
            n == Len(r.body.value.items)
        IN /\ r.res.status = 200 =>
                 /\ r.res.ok /\ r.res.count = n
                 /\ r.state = "appended"
                 /\ SubSeq(eventLog, r.at + 1, r.at + Len(r.wrote)) = r.wrote
                 /\ SplitLines(r.wrote, <<>>)
                       = [k \in 1..n |-> <<JsonText(r.body.value.items[k])>>]
           /\ (r.state = "failed" /\ r.res # NoResponse) => r.res.status = 500

\* ---- the midline dwell observer (SpecDwell) ------------------------------------
\* Number of stay interactions logged for post p.
StayCount(log, p) ==
    Cardinality({i \in DOMAIN log :
        log[i].call = "logInteraction" /\ log[i].eventType = "stay" /\ log[i].postId = p})

\* A post has a wait timer or a staying entry only while the observer is
\* connected and the post's last entry was intersecting; an entry that reports
\* the post as no longer intersecting leaves it without wait timer.
WaitNeedsIntersecting ==
    /\ [](\A p \in Posts :
            (pending[p] # NoTimer \/ stayingHas(staying, p))
                => (observing /\ notified[p] = "in"))
    /\ [][\A p \in Posts :
             (notified'[p] = "out" /\ notified[p] # "out") => pending'[p] = NoTimer]_vars

\* C30 as stated: a stay is logged for a post only when a staying period of
\* that post ends (on leave or on cleanup), a leave before the wait timer fired
\* cancels the timer and logs nothing, and every staying period that ends logs
\* exactly one stay.
C30_OneStayPerStayingPeriod ==
    /\ WaitNeedsIntersecting
    /\ [][\A p \in Posts :
             StayCount(interactions', p) - StayCount(interactions, p)
                = IF stayingHas(staying, p) /\ ~stayingHas(staying', p) THEN 1 ELSE 0]_vars

\* C30, amended: as above, but a staying period logs its one stay only when it
\* lasted longer than 0 ms; one that ends at the time it began logs none.
C30_OneStayPerPositivePeriod ==
    /\ WaitNeedsIntersecting
    /\ [][\A p \in Posts :
             StayCount(interactions', p) - StayCount(interactions, p)
                = IF /\ stayingHas(staying, p) /\ ~stayingHas(staying', p)
                     /\ clock > staying[stayingGet(staying, p)].startedAt
                  THEN 1 ELSE 0]_vars

C30_Witness ==
    /\ ~observing
    /\ \E i, j \in DOMAIN interactions :
          /\ i < j
          /\ interactions[i].eventType = "stay" /\ interactions[j].eventType = "stay"
          /\ interactions[i].trigger = "midline_leave"
          /\ interactions[i].dwellMs = WaitMs \div 2
          /\ interactions[j].trigger = "observer_cleanup"
          /\ interactions[i].postId # interactions[j].postId
    /\ \E p \in Posts : StayCount(interactions, p) = 1 /\ notified[p] = "out"
====
